---- MODULE Spec2Model ----
(***************************************************************************)
(* Development-session lifecycle of vscode-openshift-tools: the static     *)
(* class Component (openshift/component.ts) that starts, supervises and    *)
(* stops the "odo dev" child process of a component workspace folder.      *)
(*                                                                         *)
(* One state per context path (componentStates), one record per            *)
(* invocation of Component.devRunOn (runs: its pseudo terminal and the     *)
(* child process that terminal spawns), one record per                     *)
(* DevProcessStopRequest (stopRequests: the setTimeout handle, the warning *)
(* message it shows and the sigAbortSent flag).  Every handler the code    *)
(* registers is one action.                                                *)
(***************************************************************************)
EXTENDS Integers, Sequences, FiniteSets, TLC

\* ---------------------------------------------------------------- bounds
\* number of Component.devRunOn invocations explored
MaxRuns == 2
\* ------------------------------------------------------------- constants
\* context paths of the component workspace folders
Workspaces == {"w1", "w2"}
\* Component.devModeExitTimeout(): the openshiftToolkit.stopDevModeTimeout setting (seconds)
devModeExitTimeout == 30

\* enum ComponentContextState (dev axis)
DEV == "dev-nrn"
DEV_STARTING == "dev-str"
DEV_RUNNING == "dev-run"
DEV_STOPPING == "dev-stp"

\* the value 'undefined' of an object reference (terminal, process, request)
Undefined == 0
\* runOn?: undefined | 'podman'
RunOnValues == {"undefined", "podman"}
\* first character of the data handed to handleInput: Ctrl-C (char code 3) or not
InputData == {"ctrl-c", "key"}
\* outcome of the cleanup command run before the dev process is started
CleanupResults == {"cleanup.ok", "cleanup.failed"}
\* the value window.showWarningMessage resolves to
WarningActions == {"Keep waiting", "Force exit", "dismissed"}

VARIABLES
    componentStates,     \* Component.componentStates: context path -> ComponentDevState
    runs,                \* one record per devRunOn invocation (closure): terminal and child process
    stopRequests,        \* DevProcessStopRequest objects, keyed by the process they were made for
    folders,             \* the component workspace folders open in the editor
    stateChanged,        \* context paths Component.stateChanged fired for in the last step
    scn,                 \* per context path: progress along the end-to-end stop scenario
    deletion,            \* the delete commands: workspace folders, files, open warnings, calls made
    view                 \* the ComponentTypesView instance: registries, compDescriptions, subject

vars == <<componentStates, runs, stopRequests, folders, stateChanged, scn, deletion, view>>

\* ------------------------------------------------------- child processes
\* states of a ChildProcess as the extension sees it:
\*   pending   spawnTool called, its promise not settled
\*   rejected  the spawnTool promise rejected
\*   created   ChildProcess object returned, listeners attached, no event yet
\*   failed    'error' emitted (the process could not be launched)
\*   alive     process running: 'spawn' emitted, or output seen on a platform
\*             that does not emit 'spawn'
\*   exited    'exit' emitted (exitCode !== null)
CpStates == {"pending", "rejected", "created", "failed", "alive", "exited"}
\* devProcess.exitCode === null for a ChildProcess object
ExitCodeIsNull(cp) == cp \in {"created", "alive"}

\* signals delivered to a process are counted 0, 1, "2 or more"
Count(n) == IF n < 2 THEN n + 1 ELSE n

\* ChildProcess.kill(signal): delivered only to a process that has not exited
Kill(rs, p, sig) ==
    IF ExitCodeIsNull(rs[p].cp)
    THEN IF sig = "SIGINT" THEN [rs EXCEPT ![p].sigint = Count(@)]
                           ELSE [rs EXCEPT ![p].sigabrt = Count(@)]
    ELSE rs

\* ------------------------------------------------------- component state
\* Component.getComponentDevState: the state of a folder, created on first use
NewComponentDevState ==
    [devStatus |-> DEV, runOn |-> "undefined", devTerminal |-> Undefined,
     devProcess |-> Undefined, devProcessStopRequest |-> Undefined]

\* mutant of getComponentDevState: a new state object on every call
getComponentDevState_AlwaysNew(w) == NewComponentDevState

getComponentDevState(w) ==
    IF w \in DOMAIN componentStates THEN componentStates[w] ELSE NewComponentDevState

\* Map.set(contextPath, state) / mutation of the state object in the map
SetState(w, cs) ==
    [x \in (DOMAIN componentStates) \cup {w} |-> IF x = w THEN cs ELSE componentStates[x]]

\* ---------------------------------------------------------- stop request
\* Component.exitDevelopmentMode(devProcess): setTimeout armed with the configured delay
exitDevelopmentMode(p) ==
    [devProcess |-> p, devCleaningTimeout |-> "armed", delay |-> devModeExitTimeout,
     sigAbortSent |-> FALSE, warning |-> FALSE]

\* mutant of dispose: the timer is left running
dispose_KeepsTimer(sr) == sr

\* DevProcessStopRequest.dispose: clearTimeout; devCleaningTimeout = undefined
dispose(sr) == [sr EXCEPT !.devCleaningTimeout = "cleared"]

\* DevProcessStopRequest.sendSigabrt: sigAbortSent = true (the kill is done by the caller below)
sendSigabrt(sr) == [sr EXCEPT !.sigAbortSent = TRUE]

\* mutant of warningAnswered: "Force exit" also refreshes the timer
warningAnswered_ForceRefreshes(sr, action) ==
    IF sr.devCleaningTimeout = "cleared"
    THEN [sr |-> [sr EXCEPT !.warning = FALSE], abort |-> FALSE]
    ELSE IF action = "Keep waiting"
         THEN [sr |-> [sr EXCEPT !.warning = FALSE, !.devCleaningTimeout = "armed"],
               abort |-> FALSE]
         ELSE IF action = "Force exit"
              THEN [sr |-> [sr EXCEPT !.warning = FALSE, !.sigAbortSent = TRUE,
                                      !.devCleaningTimeout = "armed"],
                    abort |-> TRUE]
              ELSE [sr |-> [sr EXCEPT !.warning = FALSE], abort |-> FALSE]

\* mutant of warningAnswered: "Keep waiting" starts a timer with twice the delay
warningAnswered_BacksOff(sr, action) ==
    IF sr.devCleaningTimeout = "cleared"
    THEN [sr |-> [sr EXCEPT !.warning = FALSE], abort |-> FALSE]
    ELSE IF action = "Keep waiting"
         THEN [sr |-> [sr EXCEPT !.warning = FALSE, !.devCleaningTimeout = "armed",
                                 !.delay = 2 * @],
               abort |-> FALSE]
         ELSE IF action = "Force exit"
              THEN [sr |-> [sr EXCEPT !.warning = FALSE, !.sigAbortSent = TRUE],
                    abort |-> TRUE]
              ELSE [sr |-> [sr EXCEPT !.warning = FALSE], abort |-> FALSE]

\* mutant of warningAnswered: the answer is acted on although the request was disposed
warningAnswered_IgnoresDispose(sr, action) ==
    IF action = "Keep waiting"
    THEN [sr |-> [sr EXCEPT !.warning = FALSE, !.devCleaningTimeout = "armed"],
          abort |-> FALSE]
    ELSE IF action = "Force exit"
         THEN [sr |-> [sr EXCEPT !.warning = FALSE, !.sigAbortSent = TRUE],
               abort |-> TRUE]
         ELSE [sr |-> [sr EXCEPT !.warning = FALSE], abort |-> FALSE]

\* the .then() callback of showWarningMessage: the request after the user's answer
\* and whether devProcess.kill('SIGABRT') is called; devCleaningTimeout.refresh()
\* starts the same timer again with the delay it was created with
warningAnswered(sr, action) ==
    IF sr.devCleaningTimeout = "cleared"
    THEN [sr |-> [sr EXCEPT !.warning = FALSE], abort |-> FALSE]
    ELSE IF action = "Keep waiting"
         THEN [sr |-> [sr EXCEPT !.warning = FALSE, !.devCleaningTimeout = "armed"],
               abort |-> FALSE]
         ELSE IF action = "Force exit"
              THEN [sr |-> [sr EXCEPT !.warning = FALSE, !.sigAbortSent = TRUE],
                    abort |-> TRUE]
              ELSE [sr |-> [sr EXCEPT !.warning = FALSE], abort |-> FALSE]

\* mutant of forceExitTarget: the recorded process is killed, stop request or not
forceExitTarget_KillsDevProcess(cs, rs, srs) ==
    IF cs.devProcess # Undefined /\ ExitCodeIsNull(rs[cs.devProcess].cp)
    THEN cs.devProcess
    ELSE Undefined

\* Component.forceExitDevMode: the process that sendSigabrt of the folder's stop
\* request kills, or Undefined when the guard fails or devProcessStopRequest is
\* undefined (a TypeError)
forceExitTarget(cs, rs, srs) ==
    IF cs.devProcess # Undefined /\ ExitCodeIsNull(rs[cs.devProcess].cp)
       /\ cs.devProcessStopRequest # Undefined
    THEN srs[cs.devProcessStopRequest].devProcess
    ELSE Undefined

\* ------------------------------------------------------ scenario monitor
\* progress of one context path along: start, spawn succeeds, sign of life,
\* stop request, timer expiry, "Force exit", process exit; with the side branches
\* failed launch, force exit while running, exit before expiry, "Keep waiting"
\* twice, an answer given after the exit, and further stop requests while a
\* stop is in flight
ScnNext(s, op) ==
    CASE s = "idle" /\ op = "devRunOn" -> "start"
      [] s = "idle" /\ op = "renderStateLabel" -> "idle"
      [] s = "start" /\ op = "cleanup.ok" -> "start"
      [] s = "start" /\ op = "cleanup.failed" -> "cleanup.failed"
      [] s = "cleanup.failed" /\ op = "spawnTool" -> "cleanup.failed.spawned"
      [] s = "start" /\ op = "spawnTool" -> "spawned"
      [] s = "spawned" /\ op = "spawn" -> "life"
      [] s = "spawned" /\ op = "stdout" -> "life.stdout"
      [] s \in {"life", "life.stdout"} /\ op \in {"input.ctrl-c", "exitDevMode"} -> "stop"
      [] s = "stop" /\ op = "timeout" -> "expired"
      [] s = "expired" /\ op = "Force exit" -> "forced"
      [] s = "forced" /\ op = "exit" -> "exited"
      [] s = "start" /\ op = "spawnTool.rejected" -> "rejected"
      [] s = "spawned" /\ op = "error" -> "launch.error"
      [] s = "life" /\ op = "forceExitDevMode" -> "life.force"
      [] s = "stop" /\ op = "exit" -> "stop.exit"
      [] s = "expired" /\ op = "Keep waiting" -> "rearmed"
      [] s = "rearmed" /\ op = "timeout" -> "expired.2"
      [] s = "expired.2" /\ op = "Keep waiting" -> "rearmed.2"
      [] s = "expired" /\ op = "exit" -> "expired.exit"
      [] s = "expired.exit" /\ op = "Force exit" -> "late.force"
      [] s = "late.force" /\ op = "forceExitDevMode" -> "late.forceExit"
      [] s = "late.forceExit" /\ op = "input.ctrl-c" -> "late.stop"
      [] s = "stop" /\ op \in {"input.ctrl-c", "exitDevMode"} -> "stop.again"
      [] s = "stop.again" /\ op = "close" -> "stop.again.close"
      [] OTHER -> "off"

\* bookkeeping of a step of handler 'op' (of folder w, acting on run r): the
\* notifications fired and the scenario progress
Observe(op, w, r, fired) ==
    /\ stateChanged' = fired
    /\ UNCHANGED <<folders, deletion, view>>
    /\ scn' = [x \in Workspaces |->
                 IF x = w THEN ScnNext(scn[x], op)
                 ELSE IF r \in DOMAIN runs /\ runs[r].folder = x THEN "off"
                 ELSE scn[x]]

\* ------------------------------------------------------- delete commands
\* no delete command in use
NoDeletion ==
    [workspaceFolders |-> << >>, disk |-> {}, configured |-> {}, warnings |-> {},
     calls |-> {}]

\* ------------------------------------------------- component types view
\* a ComponentTypesView just constructed: this.registries is undefined (cached
\* is FALSE), compDescriptions is empty, the subject is open, no
\* getAllComponents call was made
NoView ==
    [cached |-> FALSE, registries |-> << >>,
     compDescriptions |-> 0, closed |-> FALSE, emitted |-> {},
     promise |-> "none", phase |-> "idle", types |-> 0, settled |-> 0,
     isError |-> FALSE]

\* ------------------------------------------------------------------ Init
Init ==
    /\ componentStates = [w \in {} |-> NewComponentDevState]
    /\ runs = << >>
    /\ stopRequests = [p \in {} |-> exitDevelopmentMode(p)]
    /\ folders = {"w1"}
    /\ stateChanged = {}
    /\ scn = [w \in Workspaces |-> "idle"]
    /\ deletion = NoDeletion
    /\ view = NoView

RunIds == DOMAIN runs

\* the state object 'cs' captured by the closures of run r
csOf(r) == componentStates[runs[r].folder]

\* the body shared by pty.close and pty.handleInput when a stop is requested:
\* devStatus = DEV_STOPPING; fire; cs.devProcess.kill('SIGINT');
\* cs.devProcessStopRequest = Component.exitDevelopmentMode(cs.devProcess)
requestStop(w, cs) ==
    /\ componentStates' = SetState(w, [cs EXCEPT !.devStatus = DEV_STOPPING,
                                                   !.devProcessStopRequest = cs.devProcess])
    /\ runs' = Kill(runs, cs.devProcess, "SIGINT")
    /\ stopRequests' = [p \in (DOMAIN stopRequests) \cup {cs.devProcess} |->
                          IF p = cs.devProcess THEN exitDevelopmentMode(p)
                          ELSE stopRequests[p]]

\* ------------------------------------------------------------ devRunOn
\* Component.devRunOn up to its first suspension: with a run target the terminal
\* is created at once (createTerminal, then pty.open calls spawnTool), without one
\* the function awaits the cleanup command first
devRunOn(w, ro) ==
    /\ w \in folders
    /\ Len(runs) < MaxRuns
    /\ LET cs == getComponentDevState(w)
           r == Len(runs) + 1
           started == [cs EXCEPT !.devStatus = DEV_STARTING, !.runOn = ro]
       IN /\ componentStates' =
                SetState(w, IF ro = "undefined" THEN started
                            ELSE [started EXCEPT !.devTerminal = r])
          /\ runs' = Append(runs, [folder |-> w,
                                   pty |-> IF ro = "undefined" THEN "cleanup" ELSE "open",
                                   cp |-> "pending", sigint |-> 0, sigabrt |-> 0])
          /\ Observe("devRunOn", w, r, {w})
    /\ UNCHANGED stopRequests

\* mutant of cleanupDone: a failed cleanup ends devRunOn before the terminal is made
cleanupDone_FailureBlocks(r, result) ==
    /\ r \in RunIds /\ runs[r].pty = "cleanup"
    /\ IF result = "cleanup.failed"
       THEN /\ runs' = [runs EXCEPT ![r].pty = "closed", ![r].cp = "rejected"]
            /\ UNCHANGED componentStates
       ELSE /\ runs' = [runs EXCEPT ![r].pty = "open"]
            /\ componentStates' = SetState(runs[r].folder, [csOf(r) EXCEPT !.devTerminal = r])
    /\ Observe(result, runs[r].folder, r, {})
    /\ UNCHANGED stopRequests

\* the awaited executeTool(deletePreviouslyPushedResources, undefined, false)
\* settles (fail = false: an error result resolves too); window.createTerminal,
\* then pty.open calls spawnTool
cleanupDone(r, result) ==
    /\ r \in RunIds /\ runs[r].pty = "cleanup"
    /\ runs' = [runs EXCEPT ![r].pty = "open"]
    /\ componentStates' = SetState(runs[r].folder, [csOf(r) EXCEPT !.devTerminal = r])
    /\ Observe(result, runs[r].folder, r, {})
    /\ UNCHANGED stopRequests

\* whether the promise returned by spawnTool is fulfilled (TRUE) or rejected (FALSE)
SpawnToolFulfilled == {TRUE, FALSE}

\* the spawnTool promise settles: .then attaches the listeners; a rejection has no handler
spawnTool(r, fulfilled) ==
    /\ r \in RunIds /\ runs[r].pty # "cleanup" /\ runs[r].cp = "pending"
    /\ runs' = [runs EXCEPT ![r].cp = IF fulfilled THEN "created" ELSE "rejected"]
    /\ Observe(IF fulfilled THEN "spawnTool" ELSE "spawnTool.rejected", runs[r].folder, r, {})
    /\ UNCHANGED <<componentStates, stopRequests>>

\* devProcess.on('spawn'): cs.devTerminal.show() throws when the terminal was closed
onSpawn(r) ==
    /\ r \in RunIds /\ runs[r].cp = "created"
    /\ runs' = [runs EXCEPT ![r].cp = "alive"]
    /\ IF csOf(r).devTerminal = Undefined
       THEN /\ UNCHANGED componentStates
            /\ Observe("spawn", runs[r].folder, r, {})
       ELSE /\ componentStates' = SetState(runs[r].folder,
                    [csOf(r) EXCEPT !.devProcess = r, !.devStatus = DEV_RUNNING])
            /\ Observe("spawn", runs[r].folder, r, {runs[r].folder})
    /\ UNCHANGED stopRequests

\* devProcess.on('error'): the process could not be launched
onError(r) ==
    /\ r \in RunIds /\ runs[r].cp = "created"
    /\ runs' = [runs EXCEPT ![r].cp = "failed"]
    /\ componentStates' = SetState(runs[r].folder, [csOf(r) EXCEPT !.devStatus = DEV])
    /\ Observe("error", runs[r].folder, r, {runs[r].folder})
    /\ UNCHANGED stopRequests

\* mutant of onStdout: the state is set to running without firing stateChanged
onStdout_Silent(r) ==
    /\ r \in RunIds /\ runs[r].cp \in {"created", "alive"}
    /\ runs' = [runs EXCEPT ![r].cp = "alive"]
    /\ componentStates' = IF csOf(r).devStatus = DEV_STARTING
                           THEN SetState(runs[r].folder,
                                         [csOf(r) EXCEPT !.devStatus = DEV_RUNNING])
                           ELSE componentStates
    /\ Observe("stdout", runs[r].folder, r, {})
    /\ UNCHANGED stopRequests

\* devProcess.stdout.on('data'); a chunk with no 'spawn' before it comes from a
\* platform that does not emit 'spawn'
onStdout(r) ==
    /\ r \in RunIds /\ runs[r].cp \in {"created", "alive"}
    /\ runs' = [runs EXCEPT ![r].cp = "alive"]
    /\ IF csOf(r).devStatus = DEV_STARTING
       THEN /\ componentStates' = SetState(runs[r].folder,
                    [csOf(r) EXCEPT !.devStatus = DEV_RUNNING])
            /\ Observe("stdout", runs[r].folder, r, {runs[r].folder})
       ELSE /\ UNCHANGED componentStates
            /\ Observe("stdout", runs[r].folder, r, {})
    /\ UNCHANGED stopRequests

\* mutant of onExit: the stop request is neither disposed nor dropped
onExit_LeavesRequest(r) ==
    /\ r \in RunIds /\ runs[r].cp \in {"created", "alive"}
    /\ runs' = [runs EXCEPT ![r].cp = "exited"]
    /\ componentStates' = SetState(runs[r].folder,
            [csOf(r) EXCEPT !.devStatus = DEV, !.devProcess = Undefined])
    /\ Observe("exit", runs[r].folder, r, {runs[r].folder})
    /\ UNCHANGED stopRequests

\* devProcess.on('exit')
onExit(r) ==
    /\ r \in RunIds /\ runs[r].cp \in {"created", "alive"}
    /\ runs' = [runs EXCEPT ![r].cp = "exited"]
    /\ LET cs == csOf(r) IN
         /\ stopRequests' = IF cs.devProcessStopRequest # Undefined
                             THEN [stopRequests EXCEPT ![cs.devProcessStopRequest] = dispose(@)]
                             ELSE stopRequests
         /\ componentStates' = SetState(runs[r].folder,
                 [cs EXCEPT !.devProcessStopRequest = Undefined, !.devStatus = DEV,
                            !.devProcess = Undefined])
    /\ Observe("exit", runs[r].folder, r, {runs[r].folder})

\* pty.close: the user closed the terminal, or a disposed terminal is closed
close(r) ==
    /\ r \in RunIds /\ runs[r].pty \in {"open", "disposing"}
    /\ LET w == runs[r].folder
           cs == csOf(r)
           closed == [runs EXCEPT ![r].pty = "closed"]
       IN IF cs.devProcess # Undefined /\ ExitCodeIsNull(runs[cs.devProcess].cp)
             /\ cs.devProcessStopRequest = Undefined
          THEN /\ componentStates' = SetState(w, [cs EXCEPT !.devStatus = DEV_STOPPING,
                                                  !.devProcessStopRequest = cs.devProcess,
                                                  !.devTerminal = Undefined])
               /\ runs' = Kill(closed, cs.devProcess, "SIGINT")
               /\ stopRequests' = [p \in (DOMAIN stopRequests) \cup {cs.devProcess} |->
                                     IF p = cs.devProcess THEN exitDevelopmentMode(p)
                                     ELSE stopRequests[p]]
               /\ Observe("close", w, r, {w})
          ELSE /\ componentStates' = SetState(w, [cs EXCEPT !.devTerminal = Undefined])
               /\ runs' = closed
               /\ UNCHANGED stopRequests
               /\ Observe("close", w, r, {})

\* mutant of handleInputBody: Ctrl-C is processed although a stop request exists
handleInputBody_NoStopGuard(r, data, op, opWs) ==
    LET w == runs[r].folder
        cs == csOf(r)
    IN IF cs.devStatus = DEV_STARTING
       THEN /\ UNCHANGED <<componentStates, runs, stopRequests>>
            /\ Observe(op, opWs, r, {})
       ELSE IF cs.devProcess = Undefined
            THEN /\ runs' = IF cs.devTerminal # Undefined
                               /\ runs[cs.devTerminal].pty = "open"
                            THEN [runs EXCEPT ![cs.devTerminal].pty = "disposing"]
                            ELSE runs
                 /\ UNCHANGED <<componentStates, stopRequests>>
                 /\ Observe(op, opWs, r, {})
            ELSE IF data = "ctrl-c"
                 THEN /\ requestStop(w, cs)
                      /\ Observe(op, opWs, r, {w})
                 ELSE /\ UNCHANGED <<componentStates, runs, stopRequests>>
                      /\ Observe(op, opWs, r, {})

\* the body of pty.handleInput of run r for one keystroke; 'op' names the caller
handleInputBody(r, data, op, opWs) ==
    LET w == runs[r].folder
        cs == csOf(r)
    IN IF cs.devStatus = DEV_STARTING
       THEN /\ UNCHANGED <<componentStates, runs, stopRequests>>
            /\ Observe(op, opWs, r, {})
       ELSE IF cs.devProcess = Undefined
            THEN \* cs.devTerminal.dispose(); a TypeError when devTerminal is undefined
                 /\ runs' = IF cs.devTerminal # Undefined
                               /\ runs[cs.devTerminal].pty = "open"
                            THEN [runs EXCEPT ![cs.devTerminal].pty = "disposing"]
                            ELSE runs
                 /\ UNCHANGED <<componentStates, stopRequests>>
                 /\ Observe(op, opWs, r, {})
            ELSE IF cs.devProcessStopRequest = Undefined /\ data = "ctrl-c"
                 THEN /\ requestStop(w, cs)
                      /\ Observe(op, opWs, r, {w})
                 ELSE /\ UNCHANGED <<componentStates, runs, stopRequests>>
                      /\ Observe(op, opWs, r, {})

\* pty.handleInput: a keystroke typed into the open terminal of run r
handleInput(r, data) ==
    /\ r \in RunIds /\ runs[r].pty = "open"
    /\ handleInputBody(r, data, IF data = "ctrl-c" THEN "input.ctrl-c" ELSE "input.key",
                       runs[r].folder)

\* Component.exitDevMode: show the dev terminal of the folder, then send Ctrl-C
\* to the active terminal (workbench.action.terminal.sendSequence)
exitDevMode(w, active) ==
    /\ w \in folders
    /\ IF w \notin DOMAIN componentStates
       THEN \* nothing is shown: the sequence goes to whichever terminal is active
            IF active \in RunIds /\ runs[active].pty = "open"
            THEN handleInputBody(active, "ctrl-c", "exitDevMode", w)
            ELSE /\ active = Undefined
                 /\ UNCHANGED <<componentStates, runs, stopRequests>>
                 /\ Observe("exitDevMode", w, Undefined, {})
       ELSE /\ active = componentStates[w].devTerminal
            /\ IF active # Undefined /\ runs[active].pty = "open"
               THEN handleInputBody(active, "ctrl-c", "exitDevMode", w)
               ELSE \* devTerminal undefined (TypeError) or not open any more
                    /\ UNCHANGED <<componentStates, runs, stopRequests>>
                    /\ Observe("exitDevMode", w, Undefined, {})

\* Component.forceExitDevMode
forceExitDevMode(w) ==
    /\ w \in folders
    /\ IF w \notin DOMAIN componentStates
       THEN UNCHANGED <<componentStates, runs, stopRequests>>
       ELSE LET cs == componentStates[w]
                target == forceExitTarget(cs, runs, stopRequests)
            IN IF target = Undefined
               THEN UNCHANGED <<componentStates, runs, stopRequests>>
               ELSE /\ stopRequests' =
                         IF cs.devProcessStopRequest # Undefined
                         THEN [stopRequests EXCEPT ![cs.devProcessStopRequest] = sendSigabrt(@)]
                         ELSE stopRequests
                    /\ runs' = Kill(runs, target, "SIGABRT")
                    /\ UNCHANGED componentStates
    /\ Observe("forceExitDevMode", w, Undefined, {})

\* the setTimeout callback of a stop request: the warning message is shown
timeout(p) ==
    /\ p \in DOMAIN stopRequests /\ stopRequests[p].devCleaningTimeout = "armed"
    /\ stopRequests' = [stopRequests EXCEPT ![p].devCleaningTimeout = "fired",
                                             ![p].warning = TRUE]
    /\ Observe("timeout", runs[p].folder, p, {})
    /\ UNCHANGED <<componentStates, runs>>

\* the user answers (or dismisses) the warning message of a stop request
answer(p, action) ==
    /\ p \in DOMAIN stopRequests /\ stopRequests[p].warning
    /\ LET res == warningAnswered(stopRequests[p], action) IN
         /\ stopRequests' = [stopRequests EXCEPT ![p] = res.sr]
         /\ runs' = IF res.abort THEN Kill(runs, stopRequests[p].devProcess, "SIGABRT")
                    ELSE runs
    /\ Observe(action, runs[p].folder, p, {})
    /\ UNCHANGED componentStates

\* Component.renderStateLabel: the label of a folder in the components view is
\* rendered; getComponentDevState puts a state into the map when there is none
\* (rendering the label of a folder that has a state changes nothing)
renderStateLabel(w) ==
    /\ w \in folders /\ w \notin DOMAIN componentStates
    /\ componentStates' = SetState(w, getComponentDevState(w))
    /\ Observe("renderStateLabel", w, Undefined, {})
    /\ UNCHANGED <<runs, stopRequests>>

Next ==
    \/ \E w \in Workspaces : renderStateLabel(w)
    \/ \E w \in Workspaces, ro \in RunOnValues : devRunOn(w, ro)
    \/ \E r \in 1..MaxRuns, result \in CleanupResults : cleanupDone(r, result)
    \/ \E r \in 1..MaxRuns, fulfilled \in SpawnToolFulfilled : spawnTool(r, fulfilled)
    \/ \E r \in 1..MaxRuns : onSpawn(r)
    \/ \E r \in 1..MaxRuns : onError(r)
    \/ \E r \in 1..MaxRuns : onStdout(r)
    \/ \E r \in 1..MaxRuns : onExit(r)
    \/ \E r \in 1..MaxRuns : close(r)
    \/ \E r \in 1..MaxRuns, data \in InputData : handleInput(r, data)
    \/ \E w \in Workspaces, active \in 0..MaxRuns : exitDevMode(w, active)
    \/ \E w \in Workspaces : forceExitDevMode(w)
    \/ \E p \in 1..MaxRuns : timeout(p)
    \/ \E p \in 1..MaxRuns, action \in WarningActions : answer(p, action)

\* one component folder
Spec == Init /\ [][Next]_vars

\* two component folders
InitTwo ==
    /\ componentStates = [w \in {} |-> NewComponentDevState]
    /\ runs = << >>
    /\ stopRequests = [p \in {} |-> exitDevelopmentMode(p)]
    /\ folders = Workspaces
    /\ stateChanged = {}
    /\ scn = [w \in Workspaces |-> "idle"]
    /\ deletion = NoDeletion
    /\ view = NoView

SpecTwo == InitTwo /\ [][Next]_vars

\* ============================================================== claims
\* the devState of a folder: a folder without a state record is not running
devState(w) == getComponentDevState(w).devStatus
devStateNext(w) == IF w \in DOMAIN componentStates' THEN componentStates'[w].devStatus ELSE DEV

\* the dev processes of a folder that were spawned and have not exited
LiveProcesses(w) == {r \in RunIds : runs[r].folder = w /\ runs[r].cp = "alive"}

\* C1: for every workspace at most one dev process spawned for it is alive
\* (spawned and not yet exited) at any time.
C1_AtMostOneLiveProcess ==
    \A w \in Workspaces : Cardinality(LiveProcesses(w)) <= 1

\* C2: a start issued while the folder is Starting or Running is a no-op: no
\* second run, and devState, runTarget, process and stop request unchanged.
C2_StartWhileActiveIsNoOp ==
    [][\A w \in Workspaces, ro \in RunOnValues :
          (devRunOn(w, ro) /\ devState(w) \in {DEV_STARTING, DEV_RUNNING})
              => (runs' = runs /\ componentStates' = componentStates)]_vars

\* C3: in every step the devState of a folder stays the same or moves along one
\* of the five edges, each taken only by its own event; Stopping is left only
\* to NotRunning and only by the exit handler.
C3_OnlyLegalTransitions ==
    [][\A w \in Workspaces :
          LET a == devState(w)
              b == devStateNext(w)
          IN \/ a = b
             \/ a = DEV /\ b = DEV_STARTING /\ \E ro \in RunOnValues : devRunOn(w, ro)
             \/ a = DEV_STARTING /\ b = DEV_RUNNING
                  /\ \E r \in RunIds : onSpawn(r) \/ onStdout(r)
             \/ a = DEV_RUNNING /\ b = DEV_STOPPING
                  /\ \E r \in RunIds : close(r) \/ handleInput(r, "ctrl-c")
                                         \/ exitDevMode(w, r)
             \/ a = DEV_STOPPING /\ b = DEV /\ \E r \in RunIds : onExit(r)
             \/ a = DEV_STARTING /\ b = DEV
                  /\ \E r \in RunIds : onError(r) \/ onExit(r)]_vars

\* the run of a folder that was started exactly once
TheRun(w) == CHOOSE r \in RunIds : runs[r].folder = w

\* the end-to-end scenario, from the sign of life in 'life' on: Running after the
\* sign of life; the stop request sends SIGINT once and arms the timer with the
\* configured delay; "Force exit" sends SIGABRT; after the exit the folder is not
\* running, the timer is cleared and the stop request is dropped
ScenarioStep(w, life) ==
    /\ scn'[w] \in life => devStateNext(w) = DEV_RUNNING
    /\ (scn[w] \in life /\ scn'[w] = "stop") =>
          /\ devStateNext(w) = DEV_STOPPING
          /\ runs[TheRun(w)].sigint = 0 /\ runs'[TheRun(w)].sigint = 1
          /\ TheRun(w) \in DOMAIN stopRequests'
          /\ stopRequests'[TheRun(w)].devCleaningTimeout = "armed"
          /\ stopRequests'[TheRun(w)].delay = devModeExitTimeout
    /\ (scn[w] = "expired" /\ scn'[w] = "forced") =>
          runs[TheRun(w)].sigabrt = 0 /\ runs'[TheRun(w)].sigabrt = 1
    /\ scn'[w] = "exited" =>
          /\ devStateNext(w) = DEV
          /\ stopRequests'[TheRun(w)].devCleaningTimeout = "cleared"
          /\ componentStates'[w].devProcessStopRequest = Undefined

\* C4: start, spawn succeeds, sign of life (the 'spawn' event or the first
\* stdout chunk), stop request, timer expiry, "Force exit", process exit:
\* Running after the sign of life; the stop request sends SIGINT and arms the
\* timer for the configured delay; "Force exit" sends SIGABRT; after the exit
\* the folder is not running, the timer is cleared, the stop request dropped.
C4_EndToEndScenario ==
    [][\A w \in Workspaces : ScenarioStep(w, {"life", "life.stdout"})]_vars

\* the same scenario with the 'spawn' event as the sign of life
C4_ScenarioAfterSpawnEvent ==
    [][\A w \in Workspaces : scn'[w] # "life.stdout" => ScenarioStep(w, {"life"})]_vars

C4_ScenarioCompleted == scn["w1"] = "exited"

\* once cleared, a timer stays cleared and shows no new warning message
ClearedStaysCleared ==
    \A p \in DOMAIN stopRequests :
        stopRequests[p].devCleaningTimeout = "cleared" =>
            /\ stopRequests'[p].devCleaningTimeout = "cleared"
            /\ stopRequests'[p].warning => stopRequests[p].warning

\* C5: when the exit event is handled after a stop request and before its timer
\* expires, the folder becomes not running, the armed timer is cleared (it never
\* expires afterwards and shows no warning), and the stop request is dropped.
C5_ExitBeforeExpiry ==
    [][/\ \A r \in RunIds :
            LET w == runs[r].folder
                sr == componentStates[w].devProcessStopRequest
            IN (onExit(r) /\ sr # Undefined
                  /\ stopRequests[sr].devCleaningTimeout = "armed") =>
                   /\ devStateNext(w) = DEV
                   /\ componentStates'[w].devProcessStopRequest = Undefined
                   /\ stopRequests'[sr].devCleaningTimeout = "cleared"
                   /\ ~stopRequests'[sr].warning
       /\ ClearedStaysCleared]_vars

C5_ExitedWhileArmed ==
    /\ scn["w1"] = "stop.exit"
    /\ devState("w1") = DEV
    /\ componentStates["w1"].devProcessStopRequest = Undefined
    /\ stopRequests[1].devCleaningTimeout = "cleared"

\* after "Force exit" or a dismissal the timer is neither started again nor
\* shows another warning message
AnsweredStaysQuiet ==
    \A p \in DOMAIN stopRequests :
        (stopRequests[p].devCleaningTimeout = "fired" /\ ~stopRequests[p].warning) =>
            /\ stopRequests'[p].devCleaningTimeout \in {"fired", "cleared"}
            /\ ~stopRequests'[p].warning

\* C6 as stated: after an expiry the answer "Force exit" sends SIGABRT to the
\* process exactly once and leaves the timer stopped, with no further expiry
\* and no further warning for that stop request.
C6_ForceExitAborts ==
    [][/\ \A p \in DOMAIN stopRequests :
            answer(p, "Force exit") =>
                /\ runs'[p].sigabrt = Count(runs[p].sigabrt)
                /\ runs[p].sigabrt = 0 => runs'[p].sigabrt = 1
                /\ stopRequests'[p].devCleaningTimeout # "armed"
                /\ ~stopRequests'[p].warning
       /\ AnsweredStaysQuiet]_vars

\* C6 amended: the same, for an answer given before the exit event is handled
\* (the stop request is not disposed yet).
C6_ForceExitAbortsBeforeExit ==
    [][/\ \A p \in DOMAIN stopRequests :
            (answer(p, "Force exit") /\ stopRequests[p].devCleaningTimeout # "cleared") =>
                /\ runs'[p].sigabrt = Count(runs[p].sigabrt)
                /\ runs[p].sigabrt = 0 => runs'[p].sigabrt = 1
                /\ stopRequests'[p].devCleaningTimeout # "armed"
                /\ ~stopRequests'[p].warning
       /\ AnsweredStaysQuiet]_vars

C6_Forced ==
    /\ scn["w1"] = "forced"
    /\ runs[1].sigabrt = 1
    /\ stopRequests[1].devCleaningTimeout = "fired"
    /\ ~stopRequests[1].warning

\* C7: after an expiry the answer "Keep waiting", given while no exit has been
\* handled, starts the same timer again with the same delay and sends no
\* SIGABRT, however often it is repeated.
C7_KeepWaitingRearms ==
    [][\A p \in DOMAIN stopRequests :
          (answer(p, "Keep waiting") /\ stopRequests[p].devCleaningTimeout # "cleared") =>
              /\ stopRequests'[p].devCleaningTimeout = "armed"
              /\ stopRequests'[p].delay = stopRequests[p].delay
              /\ stopRequests'[p].delay = devModeExitTimeout
              /\ stopRequests'[p].sigAbortSent = stopRequests[p].sigAbortSent
              /\ runs' = runs]_vars

C7_KeptWaitingTwice ==
    /\ scn["w1"] = "rearmed.2"
    /\ stopRequests[1].devCleaningTimeout = "armed"
    /\ runs[1].cp = "alive" /\ runs[1].sigabrt = 0

\* C8: forceExitDevMode of a folder that is not Stopping and has no stop request
\* delivers no signal and leaves the session state unchanged.
C8_ForceExitRejected ==
    [][\A w \in Workspaces :
          (forceExitDevMode(w) /\ devState(w) # DEV_STOPPING
             /\ getComponentDevState(w).devProcessStopRequest = Undefined) =>
              (runs' = runs /\ stopRequests' = stopRequests
                 /\ componentStates' = componentStates)]_vars

C8_ForcedWhileRunning ==
    /\ scn["w1"] = "life.force"
    /\ devState("w1") = DEV_RUNNING
    /\ runs[1].cp = "alive" /\ runs[1].sigabrt = 0

\* C9: when the dev process cannot be launched (the spawn request fails, or the
\* process reports a launch error), the folder reverts to not running.
C9_FailedSpawnReverts ==
    [][\A r \in RunIds :
          (spawnTool(r, FALSE) \/ onError(r)) => devStateNext(runs[r].folder) = DEV]_vars

\* C10: the recorded process handle is present if and only if the devState is
\* Starting, Running or Stopping.
C10_ProcessIffActive ==
    \A w \in DOMAIN componentStates :
        componentStates[w].devProcess # Undefined
            <=> componentStates[w].devStatus \in {DEV_STARTING, DEV_RUNNING, DEV_STOPPING}

\* C11: in every reachable state the stop request of a folder is present if and
\* only if its devState is Stopping.
C11_StopRequestIffStopping ==
    \A w \in DOMAIN componentStates :
        componentStates[w].devProcessStopRequest # Undefined
            <=> componentStates[w].devStatus = DEV_STOPPING

\* the stop requests made for processes of folder w whose timer is armed
ArmedTimers(w) ==
    {p \in DOMAIN stopRequests :
        runs[p].folder = w /\ stopRequests[p].devCleaningTimeout = "armed"}

\* C12: every folder has at most one armed timer, and only while its devState is
\* Stopping; a step into Stopping leaves exactly one timer armed, and a step
\* that drops the stop request leaves none.
C12_OneTimerOnlyWhileStopping ==
    [][\A w \in Workspaces :
          /\ Cardinality(ArmedTimers(w))' <= 1
          /\ ArmedTimers(w)' # {} => devStateNext(w) = DEV_STOPPING
          /\ (devState(w) # DEV_STOPPING /\ devStateNext(w) = DEV_STOPPING)
                 => Cardinality(ArmedTimers(w))' = 1
          /\ (getComponentDevState(w).devProcessStopRequest # Undefined
               /\ componentStates'[w].devProcessStopRequest = Undefined)
                 => ArmedTimers(w)' = {}]_vars

\* C13: Ctrl-C typed into the dev terminal while the folder is Starting and its
\* process exists is handled as from Running: SIGINT is sent to the process, the
\* devState becomes Stopping and the timer is armed with the configured delay.
C13_StopWhileStarting ==
    [][\A r \in RunIds :
          (handleInput(r, "ctrl-c") /\ devState(runs[r].folder) = DEV_STARTING
             /\ ExitCodeIsNull(runs[r].cp)) =>
              /\ devStateNext(runs[r].folder) = DEV_STOPPING
              /\ runs'[r].sigint = Count(runs[r].sigint)
              /\ r \in DOMAIN stopRequests'
              /\ stopRequests'[r].devCleaningTimeout = "armed"
              /\ stopRequests'[r].delay = devModeExitTimeout]_vars

\* the fields of a folder's state that make up its session
Session(cs) == <<cs.devStatus, cs.runOn, cs.devProcess, cs.devProcessStopRequest>>

\* C14: while a stop request is present, Ctrl-C input, the exit command and a
\* terminal close send no further SIGINT, make and arm no further timer and
\* leave the session unchanged; no process receives SIGINT more than once.
C14_StopInFlightIgnoresStops ==
    [][/\ \A r \in DOMAIN runs' : runs'[r].sigint <= 1
       /\ \A w \in Workspaces :
            ((\E r \in RunIds : runs[r].folder = w
                   /\ (handleInput(r, "ctrl-c") \/ close(r) \/ exitDevMode(w, r)))
               /\ getComponentDevState(w).devProcessStopRequest # Undefined) =>
                /\ \A r \in RunIds : runs'[r].sigint = runs[r].sigint
                /\ stopRequests' = stopRequests
                /\ Session(componentStates'[w]) = Session(componentStates[w])]_vars

C14_StoppedAgain ==
    /\ scn["w1"] = "stop.again.close"
    /\ devState("w1") = DEV_STOPPING
    /\ runs[1].sigint = 1 /\ runs[1].cp = "alive"
    /\ ArmedTimers("w1") = {1}

\* C15: forceExitDevMode called again while the folder is Stopping and its
\* process has not exited delivers no second SIGABRT and leaves the state as
\* the first call left it.
C15_ForceExitIdempotent ==
    [][\A w \in DOMAIN componentStates :
          LET sr == componentStates[w].devProcessStopRequest IN
          (forceExitDevMode(w) /\ devState(w) = DEV_STOPPING /\ sr # Undefined
             /\ stopRequests[sr].sigAbortSent) =>
              (runs' = runs /\ stopRequests' = stopRequests
                 /\ componentStates' = componentStates)]_vars

\* every process spawned for folder w has exited, and there is one
AllExited(w) ==
    /\ \E r \in RunIds : runs[r].folder = w /\ runs[r].cp = "exited"
    /\ \A r \in RunIds : runs[r].folder = w => ~ExitCodeIsNull(runs[r].cp)

\* no signal is delivered in the step and no timer is armed by it
NoSignalNoTimer ==
    /\ \A r \in RunIds : runs'[r].sigint = runs[r].sigint /\ runs'[r].sigabrt = runs[r].sigabrt
    /\ \A p \in DOMAIN stopRequests' :
          stopRequests'[p].devCleaningTimeout = "armed" =>
              (p \in DOMAIN stopRequests /\ stopRequests[p].devCleaningTimeout = "armed")

HandlerOf(w) ==
    \/ \E ro \in RunOnValues : devRunOn(w, ro)
    \/ \E r \in RunIds :
          /\ runs[r].folder = w
          /\ \/ onSpawn(r) \/ onError(r) \/ onStdout(r) \/ onExit(r) \/ close(r)
             \/ handleInput(r, "ctrl-c")
             \/ \E x \in Workspaces : exitDevMode(x, r)

\* C17: whenever the devState of a folder changes, stateChanged fires for that
\* folder in the same step, and it fires for no other folder: a notification
\* for a folder comes only from a handler working on that folder's state.
C17_ChangesAreNotified ==
    [][\A w \in Workspaces :
          /\ devStateNext(w) # devState(w) => stateChanged' = {w}
          /\ w \in stateChanged' => HandlerOf(w)]_vars

C17_NotifiedWhileOtherActive ==
    /\ stateChanged = {"w2"}
    /\ devState("w2") = DEV_RUNNING
    /\ devState("w1") = DEV_STARTING

\* the step is an event that belongs to folder w: a command invoked on w, or an
\* event of a terminal, process, timer or warning that a devRunOn of w created
EventOf(w) ==
    \/ \E ro \in RunOnValues : devRunOn(w, ro)
    \/ \E active \in 0..MaxRuns : exitDevMode(w, active)
    \/ forceExitDevMode(w)
    \/ \E r \in RunIds :
          /\ runs[r].folder = w
          /\ \/ \E result \in CleanupResults : cleanupDone(r, result)
             \/ \E fulfilled \in SpawnToolFulfilled : spawnTool(r, fulfilled)
             \/ onSpawn(r) \/ onError(r) \/ onStdout(r) \/ onExit(r) \/ close(r)
             \/ \E data \in InputData : handleInput(r, data)
             \/ timeout(r)
             \/ \E action \in WarningActions : answer(r, action)

\* the state of folder w after the step
getComponentDevStateNext(w) ==
    IF w \in DOMAIN componentStates' THEN componentStates'[w] ELSE NewComponentDevState

\* the step leaves the session, the stop requests and timers of folder w as they
\* were and delivers no signal to a process of w
Untouched(w) ==
    /\ Session(getComponentDevStateNext(w)) = Session(getComponentDevState(w))
    /\ \A r \in RunIds : runs[r].folder = w =>
          (runs'[r].sigint = runs[r].sigint /\ runs'[r].sigabrt = runs[r].sigabrt)
    /\ \A p \in DOMAIN stopRequests' : runs'[p].folder = w =>
          (p \in DOMAIN stopRequests /\ stopRequests'[p] = stopRequests[p])

\* C18: an event that belongs to one folder leaves devState, runTarget, process,
\* stop request and timer of every other folder unchanged and delivers no
\* signal to the other folder's process.
C18_OtherWorkspaceUntouched ==
    [][\A w1, w2 \in Workspaces : (w1 # w2 /\ EventOf(w1)) => Untouched(w2)]_vars

\* C19: a start without a run target first attempts the cleanup, and when the
\* cleanup settles, failed or not, the terminal is opened and the dev process
\* is requested from spawnTool in the same step: the folder is never left
\* Starting with no spawn attempt.
C19_CleanupNeverBlocksStart ==
    [][/\ \A w \in Workspaces :
            devRunOn(w, "undefined") => runs'[Len(runs')].pty = "cleanup"
       /\ \A r \in RunIds, result \in CleanupResults :
            cleanupDone(r, result) =>
                /\ runs'[r].pty = "open" /\ runs'[r].cp = "pending"
                /\ devStateNext(runs[r].folder) = devState(runs[r].folder)]_vars

C19_SpawnedAfterFailedCleanup ==
    /\ scn["w1"] = "cleanup.failed.spawned"
    /\ runs[1].cp = "created"
    /\ devState("w1") = DEV_STARTING

\* C20: the runTarget of a folder changes only in the start request that takes
\* the devState from NotRunning to Starting, never while the devState is
\* Starting, Running or Stopping.
C20_RunTargetFixed ==
    [][\A w \in Workspaces :
          getComponentDevStateNext(w).runOn # getComponentDevState(w).runOn =>
              /\ devState(w) = DEV /\ devStateNext(w) = DEV_STARTING
              /\ \E ro \in RunOnValues : devRunOn(w, ro)]_vars

DELETE_CONFIGURATION == "Delete Configuration"
DELETE_SOURCE_FOLDER == "Delete Source Folder"
CANCEL == "Cancel"
\* what showWarningMessage resolves to: one of its two items, or undefined
ConfigurationResponses == {DELETE_CONFIGURATION, CANCEL, "undefined"}
SourceFolderResponses == {DELETE_SOURCE_FOLDER, CANCEL, "undefined"}
\* the awaited fs.rm / odo.deleteComponentConfiguration is fulfilled or rejected
CallOutcomes == {"fulfilled", "rejected"}

\* the loop over workspace.workspaceFolders: index of the first folder whose
\* path is the context path, 0 when there is none (-1 in the source)
workspaceFolderToRmIndex(wf, path) ==
    IF \E i \in 1..Len(wf) : wf[i] = path
    THEN CHOOSE i \in 1..Len(wf) : wf[i] = path /\ \A j \in 1..(i - 1) : wf[j] # path
    ELSE 0

\* workspace.updateWorkspaceFolders(index, 1)
updateWorkspaceFolders(wf, index) ==
    [i \in 1..(Len(wf) - 1) |-> IF i < index THEN wf[i] ELSE wf[i + 1]]

\* deleteConfigurationFiles up to the awaited warning message
deleteConfigurationFiles(w) ==
    /\ <<"deleteConfigurationFiles", w>> \notin deletion.warnings
    /\ deletion' = [deletion EXCEPT !.warnings = @ \cup {<<"deleteConfigurationFiles", w>>}]
    /\ UNCHANGED <<componentStates, runs, stopRequests, folders, stateChanged, scn, view>>

\* deleteConfigurationFiles after the answer
deleteConfigurationFilesAnswered(w, response, outcome) ==
    /\ <<"deleteConfigurationFiles", w>> \in deletion.warnings
    /\ LET answered == [deletion EXCEPT !.warnings = @ \ {<<"deleteConfigurationFiles", w>>}]
       IN deletion' =
            IF response = DELETE_CONFIGURATION
            THEN IF outcome = "fulfilled"
                 THEN [answered EXCEPT
                         !.configured = @ \ {w},
                         !.calls = @ \cup {<<"deleteComponentConfiguration", w>>,
                                           <<"openshift.componentsView.refresh", w>>}]
                 ELSE [answered EXCEPT
                         !.calls = @ \cup {<<"deleteComponentConfiguration", w>>}]
            ELSE answered
    /\ UNCHANGED <<componentStates, runs, stopRequests, folders, stateChanged, scn, view>>

\* deleteSourceFolder up to the awaited warning message
deleteSourceFolder(w) ==
    /\ <<"deleteSourceFolder", w>> \notin deletion.warnings
    /\ deletion' = [deletion EXCEPT !.warnings = @ \cup {<<"deleteSourceFolder", w>>}]
    /\ UNCHANGED <<componentStates, runs, stopRequests, folders, stateChanged, scn, view>>

\* mutant of deleteSourceFolderAnswered: the folder is removed whatever the answer
deleteSourceFolderAnswered_AnyAnswer(w, response, outcome) ==
    /\ <<"deleteSourceFolder", w>> \in deletion.warnings
    /\ deletion' = [deletion EXCEPT
                      !.warnings = @ \ {<<"deleteSourceFolder", w>>},
                      !.disk = @ \ {w},
                      !.calls = @ \cup {<<"fs.rm", w>>}]
    /\ UNCHANGED <<componentStates, runs, stopRequests, folders, stateChanged, scn, view>>

\* deleteSourceFolder after the answer
deleteSourceFolderAnswered(w, response, outcome) ==
    /\ <<"deleteSourceFolder", w>> \in deletion.warnings
    /\ LET answered == [deletion EXCEPT !.warnings = @ \ {<<"deleteSourceFolder", w>>}]
           index == workspaceFolderToRmIndex(deletion.workspaceFolders, w)
       IN deletion' =
            IF response = DELETE_SOURCE_FOLDER
            THEN IF outcome = "fulfilled"
                 THEN [answered EXCEPT
                         !.disk = @ \ {w},
                         !.calls = @ \cup {<<"fs.rm", w>>},
                         !.workspaceFolders =
                             IF index # 0 THEN updateWorkspaceFolders(@, index) ELSE @]
                 ELSE [answered EXCEPT !.calls = @ \cup {<<"fs.rm", w>>}]
            ELSE answered
    /\ UNCHANGED <<componentStates, runs, stopRequests, folders, stateChanged, scn, view>>

NextDelete ==
    \/ \E w \in Workspaces : deleteConfigurationFiles(w)
    \/ \E w \in Workspaces, response \in ConfigurationResponses, outcome \in CallOutcomes :
          deleteConfigurationFilesAnswered(w, response, outcome)
    \/ \E w \in Workspaces : deleteSourceFolder(w)
    \/ \E w \in Workspaces, response \in SourceFolderResponses, outcome \in CallOutcomes :
          deleteSourceFolderAnswered(w, response, outcome)

\* no dev session in use
DevSessionIdle ==
    /\ componentStates = [w \in {} |-> NewComponentDevState]
    /\ runs = << >>
    /\ stopRequests = [p \in {} |-> exitDevelopmentMode(p)]
    /\ folders = {}
    /\ stateChanged = {}
    /\ scn = [w \in Workspaces |-> "idle"]

\* the component folders exist and are configured; any of them may be workspace folders
InitDelete ==
    /\ DevSessionIdle
    /\ deletion \in [workspaceFolders : {<< >>, <<"w1">>, <<"w2">>, <<"w1", "w2">>,
                                          <<"w2", "w1">>},
                      disk : {Workspaces}, configured : {Workspaces},
                      warnings : {{}}, calls : {{}}]
    /\ view = NoView

SpecDelete == InitDelete /\ [][NextDelete]_vars

\* C22: the two delete commands delete (call fs.rm on the folder, call
\* odo.deleteComponentConfiguration for it) exactly when the answer to their
\* warning is the confirming item; on Cancel or a dismissal nothing is deleted
\* and nothing is called; nothing is deleted or called in any other step.
C22_DeleteOnlyWhenConfirmed ==
    [][\A w \in Workspaces, outcome \in CallOutcomes :
          /\ \A response \in ConfigurationResponses :
                deleteConfigurationFilesAnswered(w, response, outcome) =>
                    IF response = DELETE_CONFIGURATION
                    THEN /\ <<"deleteComponentConfiguration", w>> \in deletion'.calls
                         /\ outcome = "fulfilled" => w \notin deletion'.configured
                    ELSE deletion' = [deletion EXCEPT
                                        !.warnings = @ \ {<<"deleteConfigurationFiles", w>>}]
          /\ \A response \in SourceFolderResponses :
                deleteSourceFolderAnswered(w, response, outcome) =>
                    IF response = DELETE_SOURCE_FOLDER
                    THEN /\ <<"fs.rm", w>> \in deletion'.calls
                         /\ outcome = "fulfilled" => w \notin deletion'.disk
                    ELSE deletion' = [deletion EXCEPT
                                        !.warnings = @ \ {<<"deleteSourceFolder", w>>}]
          /\ (deleteConfigurationFiles(w) \/ deleteSourceFolder(w)) =>
                /\ deletion'.calls = deletion.calls
                /\ deletion'.disk = deletion.disk
                /\ deletion'.configured = deletion.configured
                /\ deletion'.workspaceFolders = deletion.workspaceFolders]_vars

C22_SourceFolderDeleted ==
    /\ deletion.calls = {<<"fs.rm", "w1">>}
    /\ deletion.disk = {"w2"}
    /\ deletion.configured = Workspaces
    /\ deletion.warnings = {}
    /\ deletion.workspaceFolders = <<"w2">>

\* C23: the 'spawn' event and a stdout chunk received while Starting both take
\* the folder to Running with the process recorded as cs.devProcess; a stdout
\* chunk received in any other devState leaves the devState unchanged.
C23_SignOfLifePathsAgree ==
    [][\A r \in RunIds :
          LET w == runs[r].folder IN
          /\ ((onSpawn(r) \/ onStdout(r)) /\ devState(w) = DEV_STARTING) =>
                /\ devStateNext(w) = DEV_RUNNING
                /\ componentStates'[w].devProcess = r
          /\ (onStdout(r) /\ devState(w) # DEV_STARTING) =>
                devStateNext(w) = devState(w)]_vars

\* C24: closing the dev terminal of a process that has shown a sign of life and
\* has not exited, with no stop request present, sends SIGINT to it, sets the
\* devState to Stopping and arms the timer; closing it after the process has
\* exited, or with a stop request present, sends no signal and leaves the
\* devState unchanged.
C24_TerminalClose ==
    [][\A r \in RunIds :
          LET w == runs[r].folder IN
          close(r) =>
              IF runs[r].cp = "alive" /\ componentStates[w].devProcessStopRequest = Undefined
              THEN /\ runs'[r].sigint = Count(runs[r].sigint)
                   /\ devStateNext(w) = DEV_STOPPING
                   /\ ArmedTimers(w)' = {r}
              ELSE (runs[r].cp = "exited"
                      \/ componentStates[w].devProcessStopRequest # Undefined) =>
                       /\ NoSignalNoTimer
                       /\ devStateNext(w) = devState(w)]_vars

\* C25: whenever the devState of a folder is NotRunning, no process spawned for
\* the folder is still alive.
C25_NotRunningMeansNoLiveProcess ==
    \A w \in Workspaces : devState(w) = DEV => LiveProcesses(w) = {}

\* a process that was sent SIGINT or SIGABRT exits, and its 'exit' event is handled
SignalledProcessExits(r) ==
    onExit(r) /\ (runs[r].sigint > 0 \/ runs[r].sigabrt > 0)

\* one component folder; every signalled process eventually exits
SpecFair ==
    Init /\ [][Next]_vars /\ \A r \in 1..MaxRuns : WF_vars(SignalledProcessExits(r))

\* C26: when every process that was sent SIGINT or SIGABRT eventually exits, a
\* folder that is Stopping eventually is not running, with no stop request
\* present and no timer armed.
C26_StoppingEnds ==
    \A w \in Workspaces :
        (devState(w) = DEV_STOPPING) ~>
            (/\ devState(w) = DEV
             /\ getComponentDevState(w).devProcessStopRequest = Undefined
             /\ ArmedTimers(w) = {})

C26_StoppedAndExited ==
    /\ scn["w1"] = "exited"
    /\ devState("w1") = DEV
    /\ componentStates["w1"].devProcessStopRequest = Undefined
    /\ ArmedTimers("w1") = {}
    /\ runs[1].sigint = 1 /\ runs[1].sigabrt = 1

\* the warning of the folder's current stop request p was dismissed: the timer
\* has fired, no warning is open, no SIGABRT was asked for
Dismissed(p) ==
    /\ stopRequests[p].devCleaningTimeout = "fired"
    /\ ~stopRequests[p].warning /\ ~stopRequests[p].sigAbortSent
    /\ getComponentDevState(runs[p].folder).devProcessStopRequest = p
    /\ devState(runs[p].folder) = DEV_STOPPING

\* the dismissal itself: no SIGABRT, no timer started, no warning, devState kept
DismissalStep(p) ==
    answer(p, "dismissed") =>
        /\ runs' = runs
        /\ stopRequests'[p].devCleaningTimeout # "armed"
        /\ ~stopRequests'[p].warning
        /\ componentStates' = componentStates

\* C27: dismissing the warning sends no SIGABRT and does not start the timer
\* again; afterwards no further warning appears for that stop request, and the
\* folder stays Stopping until the process exits or forceExitDevMode is invoked.
C27_DismissalKeepsStopping ==
    [][\A p \in DOMAIN stopRequests :
          /\ DismissalStep(p)
          /\ Dismissed(p) =>
                /\ stopRequests'[p].devCleaningTimeout \in {"fired", "cleared"}
                /\ ~stopRequests'[p].warning
                /\ \/ devStateNext(runs[p].folder) = DEV_STOPPING
                   \/ onExit(p)
                   \/ forceExitDevMode(runs[p].folder)]_vars

\* the parts of C27 about the dismissal and the warning alone
C27_DismissalIsQuiet ==
    [][\A p \in DOMAIN stopRequests :
          /\ DismissalStep(p)
          /\ Dismissed(p) =>
                /\ stopRequests'[p].devCleaningTimeout \in {"fired", "cleared"}
                /\ ~stopRequests'[p].warning]_vars

\* the terminals that the step disposes
DisposedTerminals ==
    {x \in DOMAIN runs : runs[x].pty = "open" /\ runs'[x].pty = "disposing"}

\* C28: a keystroke disposes a terminal only when the dev process has ended;
\* while a dev process of the folder is alive a keystroke other than Ctrl-C
\* sends no signal, closes no terminal and keeps devState; while the folder is
\* Starting every keystroke, Ctrl-C included, is ignored.
C28_KeystrokesInTerminal ==
    [][\A r \in 1..MaxRuns : \A data \in InputData :
          handleInput(r, data) =>
              LET w == runs[r].folder
              IN /\ \A x \in DisposedTerminals :
                        /\ runs[x].cp \in {"rejected", "failed", "exited"}
                        /\ LiveProcesses(w) = {}
                 /\ (LiveProcesses(w) # {} /\ data # "ctrl-c") =>
                        UNCHANGED <<componentStates, runs, stopRequests>>
                 /\ devState(w) = DEV_STARTING =>
                        UNCHANGED <<componentStates, runs, stopRequests>>]_vars

\* ------------------------------------------------- component types view
\* bounds: registry names, length of the registry list, component types of a call
RegistryNames == {"r1", "r2", "r3"}
MaxRegistries == 3
MaxTypes == 3

\* the registry lists `odo preference view` can report
OdoRegistries == {<< >>, <<"r1">>, <<"r1", "r2">>}

\* Array.prototype.findIndex for (registry) => registry.name === name:
\* the first index (from 0) holding the name, -1 when there is none
findIndex(list, name) ==
    IF \E i \in 1..Len(list) : list[i] = name
    THEN (CHOOSE i \in 1..Len(list) :
             list[i] = name /\ \A j \in 1..(i - 1) : list[j] # name) - 1
    ELSE -1

\* Array.prototype.splice(start, 1): a negative start counts from the end
splice(list, start) ==
    LET from == IF start < 0
                THEN (IF Len(list) + start < 0 THEN 0 ELSE Len(list) + start)
                ELSE (IF start > Len(list) THEN Len(list) ELSE start)
    IN [i \in 1..(Len(list) - (IF from < Len(list) THEN 1 ELSE 0)) |->
            IF i <= from THEN list[i] ELSE list[i + 1]]

\* ComponentTypesView.addRegistry
addRegistry(name) ==
    /\ (IF view.cached THEN Len(view.registries) ELSE 0) < MaxRegistries
    /\ view' = [view EXCEPT !.cached = TRUE,
                            !.registries = Append(IF view.cached THEN @ ELSE << >>, name)]
    /\ UNCHANGED <<componentStates, runs, stopRequests, folders, stateChanged, scn, deletion>>

\* ComponentTypesView.removeRegistry; a TypeError when this.registries is undefined
removeRegistry(name) ==
    /\ view' = IF view.cached
               THEN [view EXCEPT !.registries = splice(@, findIndex(@, name))]
               ELSE view
    /\ UNCHANGED <<componentStates, runs, stopRequests, folders, stateChanged, scn, deletion>>

\* ComponentTypesView.getRegistries: the list is fetched when none is cached;
\* a failing fetch leaves the empty list
getRegistries(v, fetched) ==
    IF v.cached THEN v ELSE [v EXCEPT !.cached = TRUE, !.registries = fetched]

\* ComponentTypesView.refresh with cleanCache
refresh ==
    /\ view.cached
    /\ view' = [view EXCEPT !.cached = FALSE, !.registries = << >>]
    /\ UNCHANGED <<componentStates, runs, stopRequests, folders, stateChanged, scn, deletion>>

\* this.subject.next(event); resolve()
nextAndResolve(v, event) ==
    [v EXCEPT !.emitted = @ \cup {event}, !.promise = "resolved"]

\* ComponentTypesView.getAllComponents up to the call of getCompTypesJson; the
\* callers await the promise, so a call starts when none is pending
getAllComponents ==
    /\ view.promise # "pending"
    /\ view' = [view EXCEPT !.promise = "pending", !.phase = "getCompTypesJson",
                            !.isError = FALSE, !.compDescriptions = 0,
                            !.emitted = {}, !.types = 0, !.settled = 0]
    /\ UNCHANGED <<componentStates, runs, stopRequests, folders, stateChanged, scn, deletion>>

\* getCompTypesJson fulfilled with n component types: getRegistries is awaited
compTypesFulfilled(n) ==
    /\ view.phase = "getCompTypesJson"
    /\ view' = [view EXCEPT !.phase = "getRegistries", !.types = n]
    /\ UNCHANGED <<componentStates, runs, stopRequests, folders, stateChanged, scn, deletion>>

\* getCompTypesJson rejected: the outer catch
compTypesRejected ==
    /\ view.phase = "getCompTypesJson"
    /\ view' = [nextAndResolve(view, "error") EXCEPT !.phase = "idle"]
    /\ UNCHANGED <<componentStates, runs, stopRequests, folders, stateChanged, scn, deletion>>

\* getRegistries settled: forEach starts one describe call per component type
describeAll(fetched) ==
    /\ view.phase = "getRegistries"
    /\ view' = [getRegistries(view, fetched) EXCEPT !.phase = "describe"]
    /\ UNCHANGED <<componentStates, runs, stopRequests, folders, stateChanged, scn, deletion>>

\* one describe call settles: its then (ok) or catch, and its finally
describeSettled(ok) ==
    /\ view.phase = "describe" /\ view.settled < view.types
    /\ LET added == IF ok THEN [view EXCEPT !.compDescriptions = @ + 1,
                                            !.settled = @ + 1]
                          ELSE [view EXCEPT !.isError = TRUE, !.settled = @ + 1]
           then == IF ok /\ added.types = added.compDescriptions
                   THEN nextAndResolve(added, "refresh")
                   ELSE added
           finally == IF then.isError /\ ~then.closed
                      THEN nextAndResolve(then, "refresh")
                      ELSE then
       IN view' = finally
    /\ UNCHANGED <<componentStates, runs, stopRequests, folders, stateChanged, scn, deletion>>

\* the callbacks of a getAllComponents call in flight
CallbackStep ==
    \/ \E n \in 0..MaxTypes : compTypesFulfilled(n)
    \/ compTypesRejected
    \/ \E fetched \in OdoRegistries : describeAll(fetched)
    \/ \E ok \in BOOLEAN : describeSettled(ok)

NextView ==
    \/ \E name \in RegistryNames : addRegistry(name)
    \/ \E name \in RegistryNames : removeRegistry(name)
    \/ refresh
    \/ getAllComponents
    \/ CallbackStep

InitView ==
    /\ DevSessionIdle
    /\ deletion = NoDeletion
    /\ view = NoView

SpecView == InitView /\ [][NextView]_vars

\* every tool call made for a getAllComponents call settles
SpecViewFair == InitView /\ [][NextView]_vars /\ WF_vars(CallbackStep)

\* the number of entries of a list that hold the name
Occurrences(list, name) == Cardinality({i \in 1..Len(list) : list[i] = name})

\* list without its entry at index i (from 1)
Without(list, i) ==
    [j \in 1..(Len(list) - 1) |-> IF j < i THEN list[j] ELSE list[j + 1]]

\* C29: removeRegistry(target) removes from the cached list exactly the entry
\* named target.name and no other entry; when no entry has that name the list
\* is left unchanged.
C29_RemovesExactlyTheNamedEntry ==
    [][\A name \in RegistryNames :
          (removeRegistry(name) /\ view.cached) =>
              IF Occurrences(view.registries, name) = 0
              THEN view'.registries = view.registries
              ELSE \E i \in 1..Len(view.registries) :
                      /\ view.registries[i] = name
                      /\ view'.registries = Without(view.registries, i)]_vars

\* C30: the promise of every getAllComponents call is eventually resolved,
\* whatever the number of component types and the outcomes of the describe
\* calls, and 'refresh' or 'error' is emitted no later than it is resolved.
C30_GetAllComponentsResolves ==
    /\ (view.promise = "pending") ~> (view.promise = "resolved")
    /\ [](view.promise = "resolved" => view.emitted # {})

\* a call for at least one component type is resolved, whatever the outcomes
C30_NonEmptyResolves ==
    (view.promise = "pending" /\ view.phase = "describe" /\ view.types > 0)
        ~> (view.promise = "resolved")
====
